---- MODULE Spec2Model ----
(***************************************************************************)
(* Robust counterparts of three 0-1 programmes built with PuLP:            *)
(*   RKP.py / Knapsack.py   budgeted (Bertsimas-Sim) robust knapsack       *)
(*   P-median.py            box-uncertain p-median, dualised objective     *)
(*   Set_covering.py        set covering with discounted coverage rows     *)
(* The MILP solver is outside the repository.  It is modelled as an        *)
(* exhaustive search: every binary assignment is tried, and the continuous *)
(* variables range over an integer grid that contains every vertex of the  *)
(* polyhedron they live in (all data are integers).  A value the solver    *)
(* hands back for a binary variable is the integer or lies within the      *)
(* solver's integrality tolerance of it.                                   *)
(***************************************************************************)
EXTENDS Integers, Sequences, FiniteSets

VARIABLES
  family,            \* which script / function group the run belongs to
  pc,                \* position in the run
  profits,           \* knapsack: profits
  nominal_weights,   \* knapsack: nominal weights
  deviations,        \* knapsack: weight deviations
  capacity,          \* knapsack: capacity
  Gamma,             \* knapsack: budget of uncertainty
  coverage,          \* set covering: demand node -> covering sites
  delta,             \* set covering: delta, a fraction num/den
  z,                 \* a fixed binary assignment handed to a dual system
  dual,              \* what the dual system yields for z
  detRes,            \* outcome of the deterministic model
  robRes             \* outcome of the robust model

vars == <<family, pc, profits, nominal_weights, deviations, capacity, Gamma,
          coverage, delta, z, dual, detRes, robRes>>

None == "none"

\* ------------------------------------------------------------------ bounds
\* items of a knapsack handed to the dual system
NItems == 2
\* largest deviation of such an item
MaxDev == 2
\* largest capacity tried
MaxCap == 8
\* how far Gamma is taken past the number of items
GammaOver == 2
\* solver values are kept in units of 1/Scale
Scale == 1000000
\* integrality tolerance of the solver, in those units
Tol == 1
\* largest denominator of a delta tried
MaxDen == 4
\* largest value tried for a multiplier w[k] of the p-median dual
WMax == 1

\* ------------------------------------------------------------- arithmetic
RECURSIVE SumTo(_, _)
SumTo(f, k) == IF k = 0 THEN 0 ELSE f[k] + SumTo(f, k - 1)

\* pulp.lpSum(a[i] * b[i] for i in range(n))
RECURSIVE DotTo(_, _, _)
DotTo(a, b, k) == IF k = 0 THEN 0 ELSE a[k] * b[k] + DotTo(a, b, k - 1)

MaxOf(S) == CHOOSE m \in S : \A e \in S : e <= m
MinOf(S) == CHOOSE m \in S : \A e \in S : m <= e

Binary(n) == [1..n -> {0, 1}]

\* ------------------------------------------------------------ shipped data
ShippedProfits == <<10, 7, 5, 8, 11>>
ShippedWeights == <<2, 3, 1, 4, 5>>
ShippedDeviations == <<1, 2, 1, 1, 3>>
ShippedCapacity == 15
ShippedGamma == 2

\* ------------------------------------------------- budgeted robust knapsack
\* Values the solver needs for gamma and chi.  For fixed x the system
\*   gamma + chi[i] >= deviations[i]*x[i], gamma >= 0, chi[i] >= 0
\* has its vertices at gamma in {0} \cup {deviations[i]*x[i]} and
\* chi[i] in {0, deviations[i]*x[i] - gamma}: all integers between 0 and the
\* largest deviation.  With Gamma < 0 the term Gamma*gamma is unbounded below
\* and gamma as large as the total nominal weight makes every x fit.
DualGrid(dev, w, G) ==
  LET n == Len(dev)
      top == MaxOf({0} \cup {dev[i] : i \in 1..n})
  IN  [gamma |-> 0..(IF G < 0 THEN MaxOf({top, SumTo(w, n)}) ELSE top),
       chi   |-> [1..n -> 0..top]]

\* the slack term with gamma counted once, whatever Gamma is
DualObjectiveNoBudget(G, g, c) == g + SumTo(c, Len(c))

\* the slack term with the chi rewarded instead of charged
DualObjectiveMinus(G, g, c) == G * g - SumTo(c, Len(c))

\* Gamma * gamma + lpSum(chi[i])
DualObjective(G, g, c) == G * g + SumTo(c, Len(c))

\* lpSum(w[i]*x[i]) + Gamma*gamma + lpSum(chi[i]) <= capacity
RobustCapacity(w, x, G, g, c, cap) == DotTo(w, x, Len(w)) + DualObjective(G, g, c) <= cap

\* the dual rows with every item taken as selected
DualConstraintNoX(dev, x, g, c) == \A i \in 1..Len(dev) : g + c[i] >= dev[i]

\* the dual rows without gamma
DualConstraintNoGamma(dev, x, g, c) == \A i \in 1..Len(dev) : c[i] >= dev[i] * x[i]

\* for i in range(n): gamma + chi[i] >= deviations[i] * x[i]
DualConstraint(dev, x, g, c) == \A i \in 1..Len(dev) : g + c[i] >= dev[i] * x[i]

\* Some gamma >= 0, chi >= 0 complete x to a point of the robust model.
RobustFeasible(w, dev, cap, G, x) ==
  LET grid == DualGrid(dev, w, G)
  IN  \E g \in grid.gamma : \E c \in grid.chi :
        DualConstraint(dev, x, g, c) /\ RobustCapacity(w, x, G, g, c, cap)

\* min Gamma*gamma + sum chi over the dual constraints, x fixed
DualMin(w, dev, G, x) ==
  LET grid == DualGrid(dev, w, G)
  IN  MinOf({DualObjective(G, gc[1], gc[2]) : gc \in
               {q \in grid.gamma \X grid.chi : DualConstraint(dev, x, q[1], q[2])}})

\* ------------------------------------------- the dual system on a fixed z
DevVectors == [1..NItems -> 0..MaxDev]

InitProbe(fam) ==
  /\ family = fam
  /\ pc = "built"
  /\ profits = SubSeq(ShippedProfits, 1, NItems)
  /\ nominal_weights = SubSeq(ShippedWeights, 1, NItems)
  /\ deviations \in DevVectors
  /\ Gamma \in 0..(NItems + GammaOver)
  /\ z \in Binary(NItems)
  /\ dual = None
  /\ coverage = None /\ delta = None /\ detRes = None /\ robRes = None

InitDual == InitProbe("dual") /\ capacity = ShippedCapacity

InitRow == InitProbe("row") /\ capacity \in 0..MaxCap

\* The solver's minimum of the slack term with the binaries fixed to z.
Dualize ==
  /\ family = "dual" /\ pc = "built"
  /\ dual' = [slack |-> DualMin(nominal_weights, deviations, Gamma, z)]
  /\ pc' = "solved"
  /\ UNCHANGED <<family, profits, nominal_weights, deviations, capacity, Gamma,
                 coverage, delta, z, detRes, robRes>>

\* The solver's verdict on the robust rows with the binaries fixed to z.
CheckRow ==
  /\ family = "row" /\ pc = "built"
  /\ dual' = [fits |-> RobustFeasible(nominal_weights, deviations, capacity, Gamma, z)]
  /\ pc' = "solved"
  /\ UNCHANGED <<family, profits, nominal_weights, deviations, capacity, Gamma,
                 coverage, delta, z, detRes, robRes>>

SpecDual == InitDual /\ [][Dualize]_vars
SpecRow == InitRow /\ [][CheckRow]_vars

\* ------------------------------------------------------ what the solver returns
\* pulp.value(var) of a binary the solver set to b: b itself, or a value within
\* the integrality tolerance of it.
Off(b) == IF b = 1 THEN Scale - Tol ELSE Tol

\* The values handed back for the point x (a function to {0,1}): exact, or
\* one of them off by the tolerance.
Handed(x) ==
  {[i \in DOMAIN x |-> x[i] * Scale]} \cup
  {[i \in DOMAIN x |-> IF i = k THEN Off(x[i]) ELSE x[i] * Scale] : k \in DOMAIN x}

Exact(x) == [i \in DOMAIN x |-> x[i] * Scale]

\* How prob.solve() can end: at a best feasible point (status Optimal), or,
\* with no feasible point, with the variables left at values that satisfy
\* nothing in particular (status Infeasible).
SolverEnds(all, feasible, best) ==
  IF feasible = {} THEN [status : {"Infeasible"}, x : all]
  ELSE [status : {"Optimal"}, x : best]

\* The values pulp.value() then gives for the binaries.
Values(e) == IF e.status = "Optimal" THEN Handed(e.x) ELSE {Exact(e.x)}

\* ------------------------------------------------------------- RKP.py
\* the capacity row taken strictly
CapacityStrict(w, x, cap) == DotTo(w, x, Len(w)) < cap

\* lpSum(weights[i] * x[i]) <= capacity
CapacityConstraint(w, x, cap) == DotTo(w, x, Len(w)) <= cap

\* lpSum(profits[i] * x[i]), maximised
Argmax(prof, F) == {x \in F : \A y \in F : DotTo(prof, y, Len(prof)) <= DotTo(prof, x, Len(prof))}

KnapDeviationInputs ==
  {ShippedDeviations, [ShippedDeviations EXCEPT ![5] = -3]}

InitKnap ==
  /\ family = "knapsack"
  /\ pc = "start"
  /\ profits = ShippedProfits
  /\ nominal_weights = ShippedWeights
  /\ deviations \in KnapDeviationInputs
  /\ capacity = ShippedCapacity
  /\ Gamma \in (-1)..(Len(ShippedProfits) + 1)
  /\ z = None /\ dual = None
  /\ coverage = None /\ delta = None /\ detRes = None /\ robRes = None

solve_deterministic_knapsack ==
  /\ family = "knapsack" /\ pc = "start"
  /\ LET n == Len(profits)
         F == {x \in Binary(n) : CapacityConstraint(nominal_weights, x, capacity)}
     IN  \E e \in SolverEnds(Binary(n), F, Argmax(profits, F)) : \E v \in Values(e) :
           detRes' = [status |-> e.status,
                      objective_value |-> DotTo(profits, v, n),
                      decision_vars |-> v]
  /\ pc' = "deterministic"
  /\ UNCHANGED <<family, profits, nominal_weights, deviations, capacity, Gamma,
                 coverage, delta, z, dual, robRes>>

\* The points the robust model's solve can end at.
RobustPoints(prof, w, dev, cap, G) ==
  LET n == Len(prof)
      F == {x \in Binary(n) : RobustFeasible(w, dev, cap, G, x)}
  IN  SolverEnds(Binary(n), F, Argmax(prof, F))

\* The gamma, chi the solver can hold beside the point it ends at.
Completions(w, dev, cap, G, e) ==
  LET grid == DualGrid(dev, w, G)
  IN  {q \in grid.gamma \X grid.chi :
         e.status = "Optimal" =>
           /\ DualConstraint(dev, e.x, q[1], q[2])
           /\ RobustCapacity(w, e.x, G, q[1], q[2], cap)}

solve_robust_knapsack ==
  /\ family = "knapsack" /\ pc = "deterministic"
  /\ \E e \in RobustPoints(profits, nominal_weights, deviations, capacity, Gamma) :
     \E gc \in Completions(nominal_weights, deviations, capacity, Gamma, e) :
     \E v \in Values(e) :
       robRes' = [status |-> e.status,
                  objective_value |-> DotTo(profits, v, Len(profits)),
                  decision_vars |-> v,
                  gamma_value |-> gc[1],
                  chi_values |-> gc[2]]
  /\ pc' = "robust"
  /\ UNCHANGED <<family, profits, nominal_weights, deviations, capacity, Gamma,
                 coverage, delta, z, dual, detRes>>

\* ------------------------------------------------------------- Knapsack.py
\* if x[i].varValue == 1
KnapsackSelected(v) == v = Scale

\* The script: the robust model on its own literals, solved, then the report.
KnapsackScript ==
  /\ family = "knapsack" /\ pc = "start"
  /\ deviations = ShippedDeviations /\ Gamma = ShippedGamma
  /\ \E e \in RobustPoints(ShippedProfits, ShippedWeights, ShippedDeviations,
                            ShippedCapacity, ShippedGamma) :
     \E gc \in Completions(ShippedWeights, ShippedDeviations, ShippedCapacity,
                           ShippedGamma, e) :
     \E v \in Values(e) :
       robRes' = [status |-> e.status,
                  objective_value |-> DotTo(ShippedProfits, v, Len(ShippedProfits)),
                  decision_vars |-> v,
                  gamma_value |-> gc[1],
                  chi_values |-> gc[2],
                  selected |-> {i \in DOMAIN v : KnapsackSelected(v[i])}]
  /\ pc' = "reported"
  /\ UNCHANGED <<family, profits, nominal_weights, deviations, capacity, Gamma,
                 coverage, delta, z, dual, detRes>>

NextKnap == solve_deterministic_knapsack \/ solve_robust_knapsack \/ KnapsackScript
SpecKnap == InitKnap /\ [][NextKnap]_vars

\* --------------------------------------------------------- Set_covering.py
sites == <<"A", "B", "C", "D", "E", "F">>

costs == [A |-> 10, B |-> 10, C |-> 20, D |-> 20, E |-> 10, F |-> 10]

ShippedCoverage ==
  [A |-> {"A", "B", "C"}, B |-> {"A", "B", "D"}, C |-> {"A", "C", "D"},
   D |-> {"B", "C", "D", "E"}, E |-> {"D", "E"}, F |-> {"F"}]

\* delta = 0.5, kept as a fraction
ShippedDelta == [num |-> 1, den |-> 2]

SiteSet == {sites[k] : k \in 1..Len(sites)}

Selections == [SiteSet -> {0, 1}]

\* lpSum([costs[j] * x[j] for j in sites])
Cost(v) == SumTo([k \in 1..Len(sites) |-> costs[sites[k]] * v[sites[k]]], Len(sites))

\* lpSum([x[j] for j in Nj])
RECURSIVE Count(_, _)
Count(x, Nj) ==
  IF Nj = {} THEN 0
  ELSE LET j == CHOOSE j \in Nj : TRUE IN x[j] + Count(x, Nj \ {j})

\* cover rows that ask for a second site
CoverMoreThanOne(cov, x) == \A i \in DOMAIN cov : Count(x, cov[i]) > 1

\* lpSum([x[j] for j in Nj]) >= 1, for every demand node
Cover(cov, x) == \A i \in DOMAIN cov : Count(x, cov[i]) >= 1

\* the rows without the (1 - delta) factor
RobustCoverNoDiscount(cov, d, x) == \A i \in DOMAIN cov : d.den * Count(x, cov[i]) >= d.den

\* lpSum([(1 - delta) * x[j] for j in Nj]) >= 1, for every demand node,
\* both sides times the denominator of delta
RobustCover(cov, d, x) == \A i \in DOMAIN cov : (d.den - d.num) * Count(x, cov[i]) >= d.den

Cheapest(F) ==
  LET best == MinOf({Cost(Exact(x)) : x \in F})
  IN  {x \in F : Cost(Exact(x)) = best}

\* if x[j].value() == 1
ScpSelected(v) == v = Scale

\* What one of the two functions prints.
ScpPrints(F) ==
  UNION {{[status |-> e.status,
            cost |-> Cost(v),
            values |-> v,
            selected |-> {j \in SiteSet : ScpSelected(v[j])}] : v \in Values(e)} :
           e \in SolverEnds(Selections, F, IF F = {} THEN {} ELSE Cheapest(F))}

\* The shipped table, and that table with more sites covering demand F.
CoverageInputs ==
  {[ShippedCoverage EXCEPT !.F = Nf] :
     Nf \in {{"F"}, {"E", "F"}, {"D", "E", "F"}, {"C", "D", "E", "F"}}}

\* delta = num/den, from -1/den up to 1
DeltaInputs == {d \in [num : (-1)..MaxDen, den : 1..MaxDen] : d.num <= d.den}

InitScp ==
  /\ family = "scp"
  /\ pc = "start"
  /\ coverage \in CoverageInputs
  /\ delta \in DeltaInputs
  /\ profits = None /\ nominal_weights = None /\ deviations = None
  /\ capacity = None /\ Gamma = None
  /\ z = None /\ dual = None /\ detRes = None /\ robRes = None

solve_deterministic_scp ==
  /\ family = "scp" /\ pc = "start"
  /\ detRes' \in ScpPrints({x \in Selections : Cover(coverage, x)})
  /\ pc' = "deterministic"
  /\ UNCHANGED <<family, profits, nominal_weights, deviations, capacity, Gamma,
                 coverage, delta, z, dual, robRes>>

solve_robust_scp ==
  /\ family = "scp" /\ pc = "deterministic"
  /\ robRes' \in ScpPrints({x \in Selections : RobustCover(coverage, delta, x)})
  /\ pc' = "robust"
  /\ UNCHANGED <<family, profits, nominal_weights, deviations, capacity, Gamma,
                 coverage, delta, z, dual, detRes>>

NextScp == solve_deterministic_scp \/ solve_robust_scp
SpecScp == InitScp /\ [][NextScp]_vars

\* ------------------------------------------------------------- P-median.py
nodes == <<"A", "B", "C", "D", "E", "F">>

p == 2

NodeSet == {nodes[k] : k \in 1..Len(nodes)}

Arcs == NodeSet \X NodeSet

DistanceRows ==
  << <<0, 4, 8, 12, 6, 9>>,
     <<4, 0, 5, 10, 7, 8>>,
     <<8, 5, 0, 6, 3, 11>>,
     <<12, 10, 6, 0, 5, 7>>,
     <<6, 7, 3, 5, 0, 4>>,
     <<9, 8, 11, 7, 4, 0>> >>

NodeIndex(i) == CHOOSE k \in 1..Len(nodes) : nodes[k] = i

distance == [ij \in Arcs |-> DistanceRows[NodeIndex(ij[1])][NodeIndex(ij[2])]]

uncertain_arcs == << <<"A", "F">>, <<"B", "F">>, <<"C", "E">> >>

num_uncertain == Len(uncertain_arcs)

\* two identity blocks of the same sign
DStackedSameSign == [kl \in (1..(2 * num_uncertain)) \X (1..num_uncertain) |->
                       IF kl[1] = kl[2] \/ kl[1] = kl[2] + num_uncertain THEN 1 ELSE 0]

\* np.vstack([np.eye(num_uncertain), -np.eye(num_uncertain)])
D == [kl \in (1..(2 * num_uncertain)) \X (1..num_uncertain) |->
        IF kl[1] = kl[2] THEN 1
        ELSE IF kl[1] = kl[2] + num_uncertain THEN -1 ELSE 0]

\* np.array([2.0] * (2 * num_uncertain))
q == [k \in 1..(2 * num_uncertain) |-> 2]

\* P[(i, j)][k] = 1.0 where (i, j) is the k-th uncertain arc, else 0
P == [ij \in Arcs |-> [l \in 1..num_uncertain |-> IF ij = uncertain_arcs[l] THEN 1 ELSE 0]]

\* lpSum(c[i, j] * y[i, j] for i in nodes for j in nodes)
ArcSum(c, y) ==
  SumTo([a \in 1..Len(nodes) |->
           SumTo([b \in 1..Len(nodes) |-> c[<<nodes[a], nodes[b]>>] * y[<<nodes[a], nodes[b]>>]],
                 Len(nodes))],
        Len(nodes))

\* for i in nodes: lpSum(y[i, j] for j in nodes) == 1
AssignedOnce(y) ==
  \A i \in NodeSet : SumTo([b \in 1..Len(nodes) |-> y[<<i, nodes[b]>>]], Len(nodes)) = 1

\* y[i, j] <= x[j]
OnlyToOpen(x, y) == \A ij \in Arcs : y[ij] <= x[ij[2]]

\* lpSum(x[j] for j in nodes) == p
ExactlyP(x) == SumTo([b \in 1..Len(nodes) |-> x[nodes[b]]], Len(nodes)) = p

\* The binary points the solver tries: p facilities open and every demand
\* sent to one of them.  (Of the 2^42 binary points no other satisfies the
\* three structural rows.)
Candidates ==
  UNION {{[x |-> [j \in NodeSet |-> IF j \in S THEN 1 ELSE 0],
           y |-> [ij \in Arcs |-> IF assign[ij[1]] = ij[2] THEN 1 ELSE 0]] :
            assign \in [NodeSet -> S]} :
         S \in {T \in SUBSET NodeSet : Cardinality(T) = p}}

Structural == {pt \in Candidates : AssignedOnce(pt.y) /\ OnlyToOpen(pt.x, pt.y) /\ ExactlyP(pt.x)}

\* robust: lpSum(q[k] * w[k] for k in range(2 * num_uncertain))
robust(w) == SumTo([k \in 1..(2 * num_uncertain) |-> q[k] * w[k]], 2 * num_uncertain)

\* rhs = -lpSum(P[(i, j)][l] * y[i, j] for i in nodes for j in nodes), per l
DualRhs(y) == [l \in 1..num_uncertain |-> - ArcSum([ij \in Arcs |-> P[ij][l]], y)]

\* lhs = lpSum(D[k, l] * w[k] for k in range(2 * num_uncertain)); lhs == rhs, per l
DualEquations(rhs, w) ==
  \A l \in 1..num_uncertain :
     SumTo([k \in 1..(2 * num_uncertain) |-> D[<<k, l>>] * w[k]], 2 * num_uncertain) = rhs[l]

\* w = LpVariable.dicts("w", range(2 * num_uncertain), lowBound=0): the values
\* tried.  The right-hand sides are 0 or -1, so every vertex has w in {0, 1}.
WGrid == [1..(2 * num_uncertain) -> 0..WMax]

\* The values handed back for a point: exact, or one x or one y off.
PointValues(e) ==
  IF e.status = "Optimal"
  THEN {[x |-> vx, y |-> Exact(e.x.y)] : vx \in Handed(e.x.x)} \cup
       {[x |-> Exact(e.x.x), y |-> vy] : vy \in Handed(e.x.y)}
  ELSE {[x |-> Exact(e.x.x), y |-> Exact(e.x.y)]}

\* [j for j in nodes if pulp.value(x[j]) > 0.5], and the same test on y[i, j]
PMedianSelected(v) == 2 * v > Scale

\* What one part of the script prints.
PMedianPrints(status, objective, v) ==
  [status |-> status,
   objective |-> objective,
   values |-> v,
   open |-> {j \in NodeSet : PMedianSelected(v.x[j])},
   assignments |-> {ij \in Arcs : PMedianSelected(v.y[ij])}]

InitPMedian ==
  /\ family = "pmedian"
  /\ pc = "start"
  /\ profits = None /\ nominal_weights = None /\ deviations = None
  /\ capacity = None /\ Gamma = None /\ coverage = None /\ delta = None
  /\ z = None /\ dual = None /\ detRes = None /\ robRes = None

\* The points of F with the least objective, F given with each point's objective.
Least(scored) ==
  LET best == MinOf({s[2] : s \in scored})
  IN  {s[1] : s \in {t \in scored : t[2] = best}}

\* model.solve() on the deterministic model
DeterministicEnds ==
  SolverEnds(Candidates, Structural,
             Least({<<pt, ArcSum(distance, pt.y)>> : pt \in Structural}))

\* Part 1: the deterministic model, solved and printed.
DeterministicPMedian ==
  /\ family = "pmedian" /\ pc = "start"
  /\ \E e \in DeterministicEnds : \E v \in PointValues(e) :
       detRes' = PMedianPrints(e.status, ArcSum(distance, v.y), v)
  /\ pc' = "deterministic"
  /\ UNCHANGED <<family, profits, nominal_weights, deviations, capacity, Gamma,
                 coverage, delta, z, dual, robRes>>

\* The multipliers w that satisfy the dual constraints for the assignment y.
BoxDuals(y) == UNION {{w \in WGrid : DualEquations(rhs, w)} : rhs \in {DualRhs(y)}}

\* The least robust term among them.
BoxMin(y) == MinOf({robust(w) : w \in BoxDuals(y)})

\* The points of the robust model: a structural point and multipliers for it.
RobustStructural ==
  UNION {{[x |-> pt.x, y |-> pt.y, w |-> w] : w \in BoxDuals(pt.y)} : pt \in Structural}

\* model.solve() on the robust model: nominal + robust, minimised
RobustEnds ==
  SolverEnds([x : {pt.x : pt \in Candidates}, y : {pt.y : pt \in Candidates}, w : WGrid],
             RobustStructural,
             Least({<<pt, ArcSum(distance, pt.y) + robust(pt.w)>> : pt \in RobustStructural}))

\* Part 2: the robust model, solved and printed.
RobustPMedian ==
  /\ family = "pmedian" /\ pc = "deterministic"
  /\ \E e \in RobustEnds : \E v \in PointValues(e) :
       robRes' = PMedianPrints(e.status, ArcSum(distance, v.y) + Scale * robust(e.x.w), v)
  /\ pc' = "robust"
  /\ UNCHANGED <<family, profits, nominal_weights, deviations, capacity, Gamma,
                 coverage, delta, z, dual, detRes>>

NextPMedian == DeterministicPMedian \/ RobustPMedian
SpecPMedian == InitPMedian /\ [][NextPMedian]_vars

\* ----------------------------------- the box dual system on a fixed y
\* The assignments handed to it: every structural one, and every choice of
\* uncertain arcs on its own (the equations read y on those arcs only).
BoxInputs ==
  {pt.y : pt \in Structural} \cup
  {[ij \in Arcs |-> IF ij \in S THEN 1 ELSE 0] :
     S \in SUBSET {uncertain_arcs[l] : l \in 1..num_uncertain}}

InitBox ==
  /\ family = "box"
  /\ pc = "built"
  /\ z \in BoxInputs
  /\ profits = None /\ nominal_weights = None /\ deviations = None
  /\ capacity = None /\ Gamma = None /\ coverage = None /\ delta = None
  /\ dual = None /\ detRes = None /\ robRes = None

\* The solver on the multipliers with the binaries fixed to z.
DualizeBox ==
  /\ family = "box" /\ pc = "built"
  /\ dual' = IF BoxDuals(z) = {} THEN [solvable |-> FALSE]
             ELSE [solvable |-> TRUE, cost |-> BoxMin(z)]
  /\ pc' = "solved"
  /\ UNCHANGED <<family, profits, nominal_weights, deviations, capacity, Gamma,
                 coverage, delta, z, detRes, robRes>>

SpecBox == InitBox /\ [][DualizeBox]_vars

\* ------------------------------------------------------ the three scripts
Init == InitKnap \/ InitScp \/ InitPMedian
Next == NextKnap \/ NextScp \/ NextPMedian
Spec == Init /\ [][Next]_vars

\* ------------------------------------------------------------------ claims
\* Brute force: the largest total deviation of at most G of the items x uses.
WorstCase(dev, x, G) ==
  MaxOf({SumTo([i \in 1..Len(dev) |-> IF i \in S THEN dev[i] * x[i] ELSE 0], Len(dev)) :
           S \in {T \in SUBSET (1..Len(dev)) : Cardinality(T) <= G}})

Used(x) == {i \in DOMAIN x : x[i] = 1}

\* C1: for 0 <= Gamma <= n, some gamma, chi >= 0 satisfy the robust capacity
\* row and the dual constraints for x exactly when the nominal weight of x
\* plus the largest total deviation of at most Gamma selected items is within
\* the capacity.
C1_ExactReformulation ==
  (family = "row" /\ pc = "solved" /\ Gamma <= NItems) =>
     (dual.fits <=>
        DotTo(nominal_weights, z, NItems) + WorstCase(deviations, z, Gamma) <= capacity)

\* The budget binds: x fits although its full deviation would not.
C1_Witness ==
  /\ family = "row" /\ pc = "solved"
  /\ Gamma >= 1 /\ Gamma < Cardinality(Used(z))
  /\ dual.fits
  /\ DotTo(nominal_weights, z, NItems) + DotTo(deviations, z, NItems) > capacity

\* C2 as stated: with Gamma = 0 the minimum of the slack term is the sum of
\* the deviations of the items z uses.
C2_AsStated ==
  (family = "dual" /\ pc = "solved" /\ Gamma = 0) =>
     dual.slack = DotTo(deviations, z, NItems)

\* C2 amended: with Gamma = 0 the minimum of the slack term is 0, the largest
\* total deviation of at most 0 items.
C2_ZeroBudget ==
  (family = "dual" /\ pc = "solved" /\ Gamma = 0) =>
     (dual.slack = 0 /\ dual.slack = WorstCase(deviations, z, Gamma))

C2_Witness ==
  /\ family = "dual" /\ pc = "solved" /\ Gamma = 0
  /\ DotTo(deviations, z, NItems) > 0
  /\ dual.slack = 0

\* C3: with Gamma >= n the minimum of the slack term is the sum of the
\* deviations of the items z uses, whatever Gamma >= n is.
C3_FullBudget ==
  (family = "dual" /\ pc = "solved" /\ Gamma >= NItems) =>
     /\ dual.slack = DotTo(deviations, z, NItems)
     /\ \A G2 \in NItems..(NItems + GammaOver) :
          DualMin(nominal_weights, deviations, G2, z) = dual.slack

C3_Witness ==
  /\ family = "dual" /\ pc = "solved" /\ Gamma > NItems
  /\ Cardinality({i \in Used(z) : deviations[i] > 0}) >= 2
  /\ dual.slack = DotTo(deviations, z, NItems)

\* C8: raising deviations componentwise, z and Gamma fixed, never lowers the
\* minimum of the slack term.
C8_Monotone ==
  (family = "dual" /\ pc = "solved") =>
    \A d2 \in DevVectors :
      (\A i \in 1..NItems : d2[i] >= deviations[i]) =>
         DualMin(nominal_weights, d2, Gamma, z) >= dual.slack

\* A raise that costs: the budget is partial and a used item's deviation grows.
C8_Witness ==
  /\ family = "dual" /\ pc = "solved"
  /\ Gamma >= 1 /\ Gamma < Cardinality(Used(z))
  /\ dual.slack > 0
  /\ \E d2 \in DevVectors :
       /\ \A i \in 1..NItems : d2[i] >= deviations[i]
       /\ DualMin(nominal_weights, d2, Gamma, z) > dual.slack

\* The integer a reported value is nearest to.
Nearest(v) == (2 * v + Scale) \div (2 * Scale)

\* The entries a report with the 0.5 threshold would list.
OverHalf(v) == {i \in DOMAIN v : 2 * v[i] > Scale}

\* The uncertain arcs the assignment y uses.
UsedUncertain(y) == {l \in 1..num_uncertain : y[uncertain_arcs[l]] = 1}

\* C4: for every assignment y the dual equations of the robust p-median model
\* have a solution w >= 0, and the least value of sum q[k]*w[k] over them is
\* 2 times the number of uncertain arcs y uses.
C4_BoxClosedForm ==
  (family = "box" /\ pc = "solved") =>
     (dual.solvable /\ dual.cost = 2 * Cardinality(UsedUncertain(z)))

C4_Witness ==
  /\ family = "box" /\ pc = "solved"
  /\ Cardinality(UsedUncertain(z)) = num_uncertain
  /\ dual.solvable /\ dual.cost = 6

ShippedKnapsack == deviations = ShippedDeviations /\ Gamma = ShippedGamma

\* C5 as stated: on the shipped knapsack data the deterministic optimum is 26
\* with items {1,3,4,5}, and the robust model is feasible with an optimum no
\* larger.
C5_AsStated ==
  (family = "knapsack" /\ pc = "robust" /\ ShippedKnapsack) =>
     /\ detRes.status = "Optimal"
     /\ Nearest(detRes.objective_value) = 26
     /\ OverHalf(detRes.decision_vars) = {1, 3, 4, 5}
     /\ robRes.status = "Optimal"
     /\ robRes.objective_value <= detRes.objective_value

\* C5 amended: on the shipped knapsack data the deterministic optimum is 41
\* with all five items, and the robust model is feasible with an optimum no
\* larger.
C5_ShippedKnapsack ==
  (family = "knapsack" /\ pc = "robust" /\ ShippedKnapsack) =>
     /\ detRes.status = "Optimal"
     /\ Nearest(detRes.objective_value) = 41
     /\ OverHalf(detRes.decision_vars) = {1, 2, 3, 4, 5}
     /\ robRes.status = "Optimal"
     /\ robRes.objective_value <= detRes.objective_value

C5_Witness ==
  /\ family = "knapsack" /\ pc = "robust" /\ ShippedKnapsack
  /\ Nearest(detRes.objective_value) = 41
  /\ robRes.status = "Optimal"
  /\ Nearest(robRes.objective_value) = 30

ShippedScp == coverage = ShippedCoverage /\ delta = ShippedDelta

\* C6 as stated: on the shipped set covering data the deterministic minimum
\* cost is 20 and the discounted model reports a cost no smaller.
C6_AsStated ==
  (family = "scp" /\ pc = "robust" /\ ShippedScp) =>
     /\ detRes.status = "Optimal"
     /\ Nearest(detRes.cost) = 20
     /\ robRes.cost >= detRes.cost

\* C6 amended: on the shipped table the deterministic minimum cost is 30,
\* attained by sites {A,E,F}; with the shipped delta the discounted model is
\* infeasible; and whenever the discounted model is solved to optimality its
\* minimum cost is no smaller than the deterministic one.
C6_ShippedCover ==
  (family = "scp" /\ pc = "robust") =>
     /\ coverage = ShippedCoverage =>
          /\ detRes.status = "Optimal"
          /\ Nearest(detRes.cost) = 30
          /\ OverHalf(detRes.values) = {"A", "E", "F"}
     /\ ShippedScp => robRes.status = "Infeasible"
     /\ robRes.status = "Optimal" => Nearest(robRes.cost) >= Nearest(detRes.cost)

C6_Witness ==
  /\ family = "scp" /\ pc = "robust" /\ coverage # ShippedCoverage
  /\ delta.num > 0
  /\ robRes.status = "Optimal"
  /\ Nearest(robRes.cost) > Nearest(detRes.cost)

\* C7: a budgeted model with Gamma < 0, Gamma > n or a negative deviation,
\* and a discounted model with delta < 0, ends with InvalidUncertaintyConfig
\* and no solved model.
C7_RejectsInvalid ==
  /\ (/\ family = "knapsack" /\ pc = "robust"
      /\ \/ Gamma < 0
         \/ Gamma > Len(profits)
         \/ \E i \in 1..Len(deviations) : deviations[i] < 0)
       => robRes.status = "InvalidUncertaintyConfig"
  /\ (family = "scp" /\ pc = "robust" /\ delta.num < 0)
       => robRes.status = "InvalidUncertaintyConfig"

\* C9: in every report an entry is listed exactly when the value handed back
\* for it is above 0.5.
C9_HalfThreshold ==
  /\ (family = "knapsack" /\ pc = "reported")
       => robRes.selected = OverHalf(robRes.decision_vars)
  /\ (family = "scp" /\ pc \in {"deterministic", "robust"})
       => detRes.selected = OverHalf(detRes.values)
  /\ (family = "scp" /\ pc = "robust")
       => robRes.selected = OverHalf(robRes.values)
  /\ (family = "pmedian" /\ pc \in {"deterministic", "robust"})
       => /\ detRes.open = OverHalf(detRes.values.x)
          /\ detRes.assignments = OverHalf(detRes.values.y)
  /\ (family = "pmedian" /\ pc = "robust")
       => /\ robRes.open = OverHalf(robRes.values.x)
          /\ robRes.assignments = OverHalf(robRes.values.y)

\* C10: when some demand node has fewer covering sites than 1/(1-delta) the
\* discounted model ends Infeasible, as it does on the shipped data, and the
\* function prints a cost and a facility list all the same.
C10_DiscountInfeasible ==
  (family = "scp" /\ pc = "robust") =>
     /\ (\E i \in DOMAIN coverage :
            Cardinality(coverage[i]) * (delta.den - delta.num) < delta.den)
          => robRes.status = "Infeasible"
     /\ ShippedScp => robRes.status = "Infeasible"
     /\ DOMAIN robRes = {"status", "cost", "values", "selected"}

\* The shipped run: Infeasible, and a cost below the deterministic one printed.
C10_Witness ==
  /\ family = "scp" /\ pc = "robust" /\ ShippedScp
  /\ robRes.status = "Infeasible"
  /\ robRes.cost < detRes.cost
  /\ robRes.selected # {}
====
